---- MODULE Spec2Model ----
(***************************************************************************)
(* SwerveTrain (2020-Robot/src/main/include/SwerveTrain.h): four swerve    *)
(* modules driven as one train.  The train's bulk operations and its two   *)
(* controller helpers are translated from the header.  The SwerveModule    *)
(* class, the body of driveController and the RobotMap constants are not   *)
(* part of the header; they are modelled from the design document and are  *)
(* marked as such where they are defined.                                  *)
(*                                                                         *)
(* Encoder readings, speeds and axis deflections are doubles in the        *)
(* program; here they are integers on a grid.  Axis deflections and motor  *)
(* speeds are counted in units of 1/AxisMax of full deflection, encoder    *)
(* positions in encoder units.                                             *)
(***************************************************************************)
EXTENDS Integers, Sequences, FiniteSets, TLC

\* Grid resolution of one controller axis: deflections are -AxisMax..AxisMax.
AxisMax == 1
\* Number of distinct encoder-reading vectors the environment can produce.
NumReadings == 3
\* Candidates ZeroReference + k * period are compared for k in -KMax..KMax.
KMax == 3

\* The mechanical period ("Nic's Constant"): encoder units per azimuth turn.
NicsConstant == 4096

Modules == {"frontRight", "frontLeft", "rearLeft", "rearRight"}

ModuleIndex(m) ==
    CASE m = "frontRight" -> 0
      [] m = "frontLeft"  -> 1
      [] m = "rearLeft"   -> 2
      [] m = "rearRight"  -> 3

NullModule == "null"

\* Raw azimuth encoder values the environment draws readings from.
RawPositions == <<1000, 3200, 5248, -1200, 0, 2048, -5000, 9000>>

\* The k-th reading vector: every module reads a different raw value, and over
\* the vectors every module passes through every raw value.
Reading(k) ==
    [m \in Modules |-> RawPositions[((k + ModuleIndex(m)) % NumReadings) + 1]]

\* Values of the deadzone constant R_controllerDeadzone: negative, zero, the
\* smallest positive one and one above full deflection.
Zones == {-1, 0, 1, AxisMax + 1}

AxisValues == -AxisMax .. AxisMax

\* abs on a double: with <math.h> in C++ the call resolves to the floating
\* overload, the absolute value.
abs(v) == IF v < 0 THEN -v ELSE v

\* Controller samples <<x, y, z>>.  The stick directions enumerated are the
\* whole eighth-turns, for which the angle conversion is exact in integers.
Samples ==
    {c \in AxisValues \X AxisValues \X AxisValues :
        c[1] = 0 \/ c[2] = 0 \/ abs(c[1]) = abs(c[2])}

\* Speeds passed to setDriveSpeed and setSwerveSpeed: full reverse, stop, full
\* forward.
Speeds == {-AxisMax, 0, AxisMax}

VARIABLES
    train,                \* the SwerveTrain object: its four module pointers
    R_controllerDeadzone, \* the deadzone constant of RobotMap
    modules,              \* the four SwerveModule objects and their encoders
    call,                 \* the most recent step: operation, inputs, results
    lastCaptured          \* history: the readings stored by the last calibration

vars == <<train, R_controllerDeadzone, modules, call, lastCaptured>>

----------------------------------------------------------------------------
(* SwerveModule (SwerveModule.h is not part of the header; after the        *)
(* design document's module actuator and HomingController): one module's   *)
(* drive channel, swerve channel, stored zero and position reference.      *)
(* reference is <<>> until a position is commanded, then <<target>>.       *)

SwerveModule_setDriveSpeed(S, m, v) == [S EXCEPT ![m].driveSpeed = v]

SwerveModule_setSwerveSpeed(S, m, v) == [S EXCEPT ![m].swerveSpeed = v]

SwerveModule_getSwervePosition(S, m) == S[m].position

SwerveModule_getSwerveZeroPosition(S, m) == S[m].zeroPosition

SwerveModule_setZeroPosition(S, m) ==
    [S EXCEPT ![m].zeroPosition = SwerveModule_getSwervePosition(S, m)]

SwerveModule_assumeSwervePosition(S, m, p) == [S EXCEPT ![m].reference = <<p>>]

SwerveModule_assumeSwerveZeroPosition(S, m) ==
    SwerveModule_assumeSwervePosition(S, m, S[m].zeroPosition)

\* Of the values zero + k * period, the one nearest to position; of two
\* equally near, the one of smaller absolute value.
NearestZeroPosition(position, zero, period) ==
    LET k0 == (position - zero) \div period
        lo == zero + k0 * period
        hi == lo + period
        r  == position - lo
    IN  IF 2 * r < period THEN lo
        ELSE IF 2 * r > period THEN hi
        ELSE IF abs(lo) <= abs(hi) THEN lo ELSE hi

SwerveModule_assumeSwerveNearestZeroPosition(S, m) ==
    SwerveModule_assumeSwervePosition(S, m,
        NearestZeroPosition(S[m].position, S[m].zeroPosition, NicsConstant))

----------------------------------------------------------------------------
(* SwerveTrain *)

\* Variant: a constructor that checks the configuration and binds no module
\* when the deadzone is negative.
SwerveTrain_validating(frontRightModule, frontLeftModule, rearLeftModule, rearRightModule) ==
    IF R_controllerDeadzone < 0
    THEN [m_frontRight |-> NullModule, m_frontLeft |-> NullModule,
          m_rearLeft |-> NullModule, m_rearRight |-> NullModule]
    ELSE [m_frontRight |-> frontRightModule, m_frontLeft |-> frontLeftModule,
          m_rearLeft |-> rearLeftModule, m_rearRight |-> rearRightModule]

SwerveTrain(frontRightModule, frontLeftModule, rearLeftModule, rearRightModule) ==
    [m_frontRight |-> frontRightModule,
     m_frontLeft  |-> frontLeftModule,
     m_rearLeft   |-> rearLeftModule,
     m_rearRight  |-> rearRightModule]

\* Variant: the rear-right call is missing.
setDriveSpeed_withoutRearRight(S, driveSpeed) ==
    LET s1 == SwerveModule_setDriveSpeed(S, train.m_frontRight, driveSpeed)
        s2 == SwerveModule_setDriveSpeed(s1, train.m_frontLeft, driveSpeed)
    IN  SwerveModule_setDriveSpeed(s2, train.m_rearLeft, driveSpeed)

setDriveSpeed(S, driveSpeed) ==
    LET s1 == SwerveModule_setDriveSpeed(S, train.m_frontRight, driveSpeed)
        s2 == SwerveModule_setDriveSpeed(s1, train.m_frontLeft, driveSpeed)
        s3 == SwerveModule_setDriveSpeed(s2, train.m_rearLeft, driveSpeed)
    IN  SwerveModule_setDriveSpeed(s3, train.m_rearRight, driveSpeed)

\* Variant: the rear-left line calls setDriveSpeed.
setSwerveSpeed_driveOnRearLeft(S, swerveSpeed) ==
    LET s1 == SwerveModule_setSwerveSpeed(S, train.m_frontRight, swerveSpeed)
        s2 == SwerveModule_setSwerveSpeed(s1, train.m_frontLeft, swerveSpeed)
        s3 == SwerveModule_setDriveSpeed(s2, train.m_rearLeft, swerveSpeed)
    IN  SwerveModule_setSwerveSpeed(s3, train.m_rearRight, swerveSpeed)

setSwerveSpeed(S, swerveSpeed) ==
    LET s1 == SwerveModule_setSwerveSpeed(S, train.m_frontRight, swerveSpeed)
        s2 == SwerveModule_setSwerveSpeed(s1, train.m_frontLeft, swerveSpeed)
        s3 == SwerveModule_setSwerveSpeed(s2, train.m_rearLeft, swerveSpeed)
    IN  SwerveModule_setSwerveSpeed(s3, train.m_rearRight, swerveSpeed)

\* Variant: the front-left call is missing.
setSwerveZeroPosition_withoutFrontLeft(S) ==
    LET s1 == SwerveModule_setZeroPosition(S, train.m_frontRight)
        s3 == SwerveModule_setZeroPosition(s1, train.m_rearLeft)
    IN  SwerveModule_setZeroPosition(s3, train.m_rearRight)

\* Variant: the rear-right line calls assumeSwerveZeroPosition after capturing.
setSwerveZeroPosition_homingRearRight(S) ==
    LET s1 == SwerveModule_setZeroPosition(S, train.m_frontRight)
        s2 == SwerveModule_setZeroPosition(s1, train.m_frontLeft)
        s3 == SwerveModule_setZeroPosition(s2, train.m_rearLeft)
        s4 == SwerveModule_setZeroPosition(s3, train.m_rearRight)
    IN  SwerveModule_assumeSwerveZeroPosition(s4, train.m_rearRight)

setSwerveZeroPosition(S) ==
    LET s1 == SwerveModule_setZeroPosition(S, train.m_frontRight)
        s2 == SwerveModule_setZeroPosition(s1, train.m_frontLeft)
        s3 == SwerveModule_setZeroPosition(s2, train.m_rearLeft)
    IN  SwerveModule_setZeroPosition(s3, train.m_rearRight)

\* The PutNumber calls of setSwerveZeroPosition, made on the state S that the
\* four setZeroPosition calls leave.
setSwerveZeroPosition_published(S, verbose) ==
    IF verbose
    THEN {<<"FR Swrv Pos0", SwerveModule_getSwerveZeroPosition(S, train.m_frontRight)>>,
          <<"FL Swrv Pos0", SwerveModule_getSwerveZeroPosition(S, train.m_frontLeft)>>,
          <<"RL Swrv Pos0", SwerveModule_getSwerveZeroPosition(S, train.m_rearLeft)>>,
          <<"RR Swrv Pos0", SwerveModule_getSwerveZeroPosition(S, train.m_rearRight)>>}
    ELSE {}

\* Variant: the front-right line calls setZeroPosition.
assumeZeroPosition_capturingFrontRight(S) ==
    LET s1 == SwerveModule_setZeroPosition(S, train.m_frontRight)
        s2 == SwerveModule_assumeSwerveZeroPosition(s1, train.m_frontLeft)
        s3 == SwerveModule_assumeSwerveZeroPosition(s2, train.m_rearLeft)
    IN  SwerveModule_assumeSwerveZeroPosition(s3, train.m_rearRight)

assumeZeroPosition(S) ==
    LET s1 == SwerveModule_assumeSwerveZeroPosition(S, train.m_frontRight)
        s2 == SwerveModule_assumeSwerveZeroPosition(s1, train.m_frontLeft)
        s3 == SwerveModule_assumeSwerveZeroPosition(s2, train.m_rearLeft)
    IN  SwerveModule_assumeSwerveZeroPosition(s3, train.m_rearRight)

\* Variant: the rear-left line calls assumeSwerveZeroPosition.
assumeNearestZeroPosition_zeroOnRearLeft(S) ==
    LET s1 == SwerveModule_assumeSwerveNearestZeroPosition(S, train.m_frontRight)
        s2 == SwerveModule_assumeSwerveNearestZeroPosition(s1, train.m_frontLeft)
        s3 == SwerveModule_assumeSwerveZeroPosition(s2, train.m_rearLeft)
    IN  SwerveModule_assumeSwerveNearestZeroPosition(s3, train.m_rearRight)

\* Variant: the rear-left line is repeated in place of the rear-right one.
assumeNearestZeroPosition_rearLeftTwice(S) ==
    LET s1 == SwerveModule_assumeSwerveNearestZeroPosition(S, train.m_frontRight)
        s2 == SwerveModule_assumeSwerveNearestZeroPosition(s1, train.m_frontLeft)
        s3 == SwerveModule_assumeSwerveNearestZeroPosition(s2, train.m_rearLeft)
    IN  SwerveModule_assumeSwerveNearestZeroPosition(s3, train.m_rearLeft)

assumeNearestZeroPosition(S) ==
    LET s1 == SwerveModule_assumeSwerveNearestZeroPosition(S, train.m_frontRight)
        s2 == SwerveModule_assumeSwerveNearestZeroPosition(s1, train.m_frontLeft)
        s3 == SwerveModule_assumeSwerveNearestZeroPosition(s2, train.m_rearLeft)
    IN  SwerveModule_assumeSwerveNearestZeroPosition(s3, train.m_rearRight)

publishSwervePositions(S) ==
    {<<"FR Swrv Pos", SwerveModule_getSwervePosition(S, train.m_frontRight)>>,
     <<"FL Swrv Pos", SwerveModule_getSwervePosition(S, train.m_frontLeft)>>,
     <<"RL Swrv Pos", SwerveModule_getSwervePosition(S, train.m_rearLeft)>>,
     <<"RR Swrv Pos", SwerveModule_getSwervePosition(S, train.m_rearRight)>>}

\* Variant: the coordinates are summed without their absolute values.
getControllerAbsoluteMagnitude_signed(controller) ==
    controller[1] + controller[2]

getControllerAbsoluteMagnitude(controller) ==
    LET absX == abs(controller[1])
        absY == abs(controller[2])
    IN  absX + absY

\* Variant: the comparison admits an axis at the threshold.
getControllerInDeadzone_inclusive(controller) ==
    LET absX == abs(controller[1])
        absY == abs(controller[2])
        absZ == abs(controller[3])
        zone == R_controllerDeadzone
    IN  IF absX <= zone /\ absY <= zone /\ absZ <= zone THEN TRUE ELSE FALSE

getControllerInDeadzone(controller) ==
    LET absX == abs(controller[1])
        absY == abs(controller[2])
        absZ == abs(controller[3])
        zone == R_controllerDeadzone
    IN  IF absX < zone /\ absY < zone /\ absZ < zone THEN TRUE ELSE FALSE

\* The remaining definitions of this section have their bodies outside the
\* header and follow the design document's per-tick pipeline.

\* Clockwise eighth-turns from the vertical (0, 1) to the stick direction;
\* the sign of x tells the right half-plane from the left.  A centred stick
\* has angle 0.
ClockwiseEighths(x, y) ==
    CASE x = 0 /\ y >= 0 -> 0
      [] x > 0 /\ y > 0  -> 1
      [] x > 0 /\ y = 0  -> 2
      [] x > 0 /\ y < 0  -> 3
      [] x = 0 /\ y < 0  -> 4
      [] x < 0 /\ y < 0  -> 5
      [] x < 0 /\ y = 0  -> 6
      [] x < 0 /\ y > 0  -> 7

\* rotationUnit = angle / (2 pi) * mechanicalPeriod
getControllerClockwiseREVRotationsFromCenter(controller) ==
    (ClockwiseEighths(controller[1], controller[2]) * NicsConstant) \div 8

assumeSwervePosition(S, p) ==
    LET s1 == SwerveModule_assumeSwervePosition(S, train.m_frontRight, p)
        s2 == SwerveModule_assumeSwervePosition(s1, train.m_frontLeft, p)
        s3 == SwerveModule_assumeSwervePosition(s2, train.m_rearLeft, p)
    IN  SwerveModule_assumeSwervePosition(s3, train.m_rearRight, p)

driveController(S, controller) ==
    IF getControllerInDeadzone(controller)
    THEN setDriveSpeed(S, 0)
    ELSE setDriveSpeed(
             assumeSwervePosition(S,
                 getControllerClockwiseREVRotationsFromCenter(controller)),
             getControllerAbsoluteMagnitude(controller))

----------------------------------------------------------------------------
(* The state machine *)

NoTrain == SwerveTrain(NullModule, NullModule, NullModule, NullModule)

Constructed == train # NoTrain

Step(op) ==
    [op |-> op, controller |-> <<0, 0, 0>>, centred |-> FALSE, magnitude |-> 0,
     speed |-> 0, verbose |-> FALSE, published |-> {}]

\* The modules are built by the caller and handed to the constructor by
\* reference: their drive motors are idle or already running, each stored zero
\* is the module's power-on reading, and no position has been commanded.
Init ==
    /\ R_controllerDeadzone \in Zones
    /\ train = NoTrain
    /\ \E running \in {0, AxisMax} :
          modules = [m \in Modules |->
                        [position     |-> Reading(0)[m],
                         zeroPosition |-> Reading(0)[m],
                         driveSpeed   |-> running,
                         swerveSpeed  |-> 0,
                         reference    |-> <<>>]]
    /\ call = Step("none")
    /\ lastCaptured = Reading(0)

Op_SwerveTrain ==
    /\ ~Constructed
    /\ train' = SwerveTrain("frontRight", "frontLeft", "rearLeft", "rearRight")
    /\ call' = Step("SwerveTrain")
    /\ UNCHANGED <<R_controllerDeadzone, modules, lastCaptured>>

\* The azimuth encoders turn: the next reading vector is any other one.
EncoderMove ==
    /\ Constructed
    /\ \E k \in 0 .. (NumReadings - 1) :
          /\ \E m \in Modules : Reading(k)[m] # modules[m].position
          /\ modules' = [m \in Modules |->
                            [modules[m] EXCEPT !.position = Reading(k)[m]]]
    /\ call' = Step("encoder")
    /\ UNCHANGED <<train, R_controllerDeadzone, lastCaptured>>

Op_setDriveSpeed ==
    /\ Constructed
    /\ \E v \in Speeds :
          /\ modules' = setDriveSpeed(modules, v)
          /\ call' = [Step("setDriveSpeed") EXCEPT !.speed = v]
    /\ UNCHANGED <<train, R_controllerDeadzone, lastCaptured>>

Op_setSwerveSpeed ==
    /\ Constructed
    /\ \E v \in Speeds :
          /\ modules' = setSwerveSpeed(modules, v)
          /\ call' = [Step("setSwerveSpeed") EXCEPT !.speed = v]
    /\ UNCHANGED <<train, R_controllerDeadzone, lastCaptured>>

Op_setSwerveZeroPosition ==
    /\ Constructed
    /\ \E verbose \in BOOLEAN :
          /\ modules' = setSwerveZeroPosition(modules)
          /\ call' = [Step("setSwerveZeroPosition") EXCEPT
                         !.verbose = verbose,
                         !.published = setSwerveZeroPosition_published(
                                           setSwerveZeroPosition(modules), verbose)]
    /\ lastCaptured' = [m \in Modules |-> modules[m].position]
    /\ UNCHANGED <<train, R_controllerDeadzone>>

Op_assumeZeroPosition ==
    /\ Constructed
    /\ modules' = assumeZeroPosition(modules)
    /\ call' = Step("assumeZeroPosition")
    /\ UNCHANGED <<train, R_controllerDeadzone, lastCaptured>>

Op_assumeNearestZeroPosition ==
    /\ Constructed
    /\ modules' = assumeNearestZeroPosition(modules)
    /\ call' = Step("assumeNearestZeroPosition")
    /\ UNCHANGED <<train, R_controllerDeadzone, lastCaptured>>

Op_publishSwervePositions ==
    /\ Constructed
    /\ call' = [Step("publishSwervePositions") EXCEPT
                   !.published = publishSwervePositions(modules)]
    /\ UNCHANGED <<train, R_controllerDeadzone, modules, lastCaptured>>

Op_driveController ==
    /\ Constructed
    /\ \E controller \in Samples :
          /\ modules' = driveController(modules, controller)
          /\ call' = [Step("driveController") EXCEPT
                         !.controller = controller,
                         !.centred = getControllerInDeadzone(controller),
                         !.magnitude =
                             IF getControllerInDeadzone(controller) THEN 0
                             ELSE getControllerAbsoluteMagnitude(controller)]
    /\ UNCHANGED <<train, R_controllerDeadzone, lastCaptured>>

Next ==
    \/ Op_SwerveTrain
    \/ EncoderMove
    \/ Op_setDriveSpeed
    \/ Op_setSwerveSpeed
    \/ Op_setSwerveZeroPosition
    \/ Op_assumeZeroPosition
    \/ Op_assumeNearestZeroPosition
    \/ Op_publishSwervePositions
    \/ Op_driveController

Spec == Init /\ [][Next]_vars

----------------------------------------------------------------------------
(* Properties *)

\* C1: a driveController call whose sample the deadzone filter reports as
\* centred leaves all four modules at drive speed 0 and changes no module's
\* azimuth reference.
C1_DeadzoneStops ==
    [][(call'.op = "driveController" /\ call'.centred) =>
          \A m \in Modules :
              /\ modules'[m].driveSpeed = 0
              /\ modules'[m].reference = modules[m].reference]_vars

\* A centred, off-origin sample has stopped a train whose modules hold homing
\* references and a nonzero swerve speed.
C1_Witness ==
    /\ call.op = "driveController"
    /\ call.centred
    /\ call.controller # <<0, 0, 0>>
    /\ \A m \in Modules :
          /\ modules[m].driveSpeed = 0
          /\ modules[m].reference # <<>>
          /\ modules[m].swerveSpeed # 0

\* C2: the deadzone filter returns true exactly when every axis lies strictly
\* inside (-threshold, threshold); an axis at the threshold, or a threshold
\* <= 0, gives false.
C2_DeadzoneIff ==
    call.op = "driveController" =>
        LET c == call.controller
            t == R_controllerDeadzone
        IN  /\ call.centred <=> (\A i \in 1 .. 3 : -t < c[i] /\ c[i] < t)
            /\ (t <= 0) => ~call.centred
            /\ (\E i \in 1 .. 3 : c[i] = t \/ c[i] = -t) => ~call.centred

\* One axis sits exactly at a positive threshold, the others are centred, and
\* the filter has answered false.
C2_Witness ==
    /\ call.op = "driveController"
    /\ R_controllerDeadzone > 0
    /\ call.controller = <<R_controllerDeadzone, 0, 0>>
    /\ ~call.centred

IsNearestZero(t, position, zero) ==
    /\ (t - zero) % NicsConstant = 0
    /\ \A k \in -KMax .. KMax :
          LET c == zero + k * NicsConstant
          IN  \/ abs(t - position) < abs(c - position)
              \/ abs(t - position) = abs(c - position) /\ abs(t) <= abs(c)

C5_CaptureThenHome ==
    /\ call.op = "setSwerveZeroPosition" =>
          \A m \in Modules :
              /\ modules[m].zeroPosition = modules[m].position
              /\ lastCaptured[m] = modules[m].position
    /\ call.op = "assumeZeroPosition" =>
          \A m \in Modules : modules[m].reference = <<lastCaptured[m]>>

\* The front-left module powered on at 3200, was calibrated at raw 1000, has
\* moved away since, and assumeZeroPosition has sent it to 1000.
C5_Witness ==
    /\ call.op = "assumeZeroPosition"
    /\ lastCaptured["frontLeft"] = 1000
    /\ modules["frontLeft"].position # 1000
    /\ modules["frontLeft"].reference = <<1000>>

\* C6: setDriveSpeed(v) leaves every module's drive speed at v and every swerve
\* speed as it was; setSwerveSpeed(v) leaves every swerve speed at v and every
\* drive speed as it was.
C6_Broadcast ==
    [][/\ call'.op = "setDriveSpeed" =>
             \A m \in Modules :
                 /\ modules'[m].driveSpeed = call'.speed
                 /\ modules'[m].swerveSpeed = modules[m].swerveSpeed
       /\ call'.op = "setSwerveSpeed" =>
             \A m \in Modules :
                 /\ modules'[m].swerveSpeed = call'.speed
                 /\ modules'[m].driveSpeed = modules[m].driveSpeed]_vars

\* setSwerveSpeed has written full reverse to every swerve channel of a train
\* whose drive channels all hold full forward.
C6_Witness ==
    /\ call.op = "setSwerveSpeed"
    /\ call.speed = -AxisMax
    /\ \A m \in Modules :
          /\ modules[m].swerveSpeed = -AxisMax
          /\ modules[m].driveSpeed = AxisMax

\* C7 as stated: a train exists only for a valid configuration (deadzone >= 0
\* and mechanical period > 0).
C7_Original ==
    Constructed => (R_controllerDeadzone >= 0 /\ NicsConstant > 0)

\* C7 amended: the constructor checks nothing; once it has run the train holds
\* its four modules whatever the deadzone constant is, negative included, and
\* under a deadzone <= 0 the drive pipeline runs and finds no sample centred.
C7_ConstructionUnconditional ==
    /\ call.op # "none" =>
          train = [m_frontRight |-> "frontRight", m_frontLeft |-> "frontLeft",
                   m_rearLeft |-> "rearLeft", m_rearRight |-> "rearRight"]
    /\ (call.op = "driveController" /\ R_controllerDeadzone <= 0) => ~call.centred

\* A train built under a negative deadzone has run the deadzone filter and the
\* drive pipeline on a centred stick, and has not found it centred.
C7_Witness ==
    /\ Constructed
    /\ R_controllerDeadzone < 0
    /\ call.op = "driveController"
    /\ call.controller = <<0, 0, 0>>
    /\ ~call.centred

\* C8: the magnitude is |x| + |y|: never negative, 0 only for x = y = 0, and
\* the same for every z.
C8_TaxicabMagnitude ==
    (call.op = "driveController" /\ ~call.centred) =>
        LET x == call.controller[1]
            y == call.controller[2]
            max(a, b) == IF a >= b THEN a ELSE b
        IN  /\ call.magnitude = max(x, -x) + max(y, -y)
            /\ call.magnitude >= 0
            /\ call.magnitude = 0 <=> (x = 0 /\ y = 0)

\* A diagonal sample with x negative and z off centre has magnitude 2 * AxisMax.
C8_Witness ==
    /\ call.op = "driveController"
    /\ ~call.centred
    /\ call.controller = <<-AxisMax, AxisMax, AxisMax>>
    /\ call.magnitude = 2 * AxisMax

\* C9: setSwerveZeroPosition and publishSwervePositions change no module's
\* drive speed, swerve speed or azimuth reference, and publishSwervePositions
\* changes no module's stored zero.
C9_NoMotion ==
    [][/\ call'.op \in {"setSwerveZeroPosition", "publishSwervePositions"} =>
             \A m \in Modules :
                 /\ modules'[m].driveSpeed = modules[m].driveSpeed
                 /\ modules'[m].swerveSpeed = modules[m].swerveSpeed
                 /\ modules'[m].reference = modules[m].reference
       /\ call'.op = "publishSwervePositions" =>
             \A m \in Modules :
                 modules'[m].zeroPosition = modules[m].zeroPosition]_vars

\* A verbose calibration has stored a new zero on a train that is driving,
\* swerving and holding a reference away from its position.
C9_Witness ==
    /\ call.op = "setSwerveZeroPosition"
    /\ call.verbose
    /\ call.published # {}
    /\ modules["frontLeft"].zeroPosition = 1000
    /\ \A m \in Modules :
          /\ modules[m].driveSpeed # 0
          /\ modules[m].swerveSpeed # 0
          /\ modules[m].reference # <<>>
          /\ modules[m].reference # <<modules[m].position>>

\* C10: a step that is not setSwerveZeroPosition changes no module's stored
\* zero, which stays the value of the last calibration (the power-on reading
\* when there was none).
C10_ZeroOnlyByCalibration ==
    [][call'.op # "setSwerveZeroPosition" =>
          \A m \in Modules :
              /\ modules'[m].zeroPosition = modules[m].zeroPosition
              /\ modules'[m].zeroPosition = lastCaptured'[m]]_vars

\* After a calibration at a reading other than the power-on one, the encoders
\* have moved on and the train has homed, set speeds and driven.
C10_Witness ==
    /\ call.op = "driveController"
    /\ ~call.centred
    /\ modules["frontLeft"].zeroPosition = 1000
    /\ modules["frontLeft"].position = 5248
    /\ modules["frontLeft"].swerveSpeed # 0
    /\ modules["frontLeft"].reference # <<>>

====
